---- MODULE Spec2Model ----
(***************************************************************************)
(* Model of wescpy/pdftool: the page-spec parser, the three PDF operations *)
(* (merge, delete pages, page count) and the two adapters in front of them *)
(* (the FastAPI handlers of backend/main.py, the PDFTool class and main()  *)
(* of cli/pdf_tool.py, and the prompts of its interactive_delete()).       *)
(*                                                                         *)
(* Strings are sequences of one-character strings.  A PDF document is the  *)
(* sequence of its pages; a page is the pair <<source, position>>, so that *)
(* every page of every input is distinguishable.  Bytes that PyPDF2 cannot *)
(* decode are "corrupt" content carrying the exception PdfReader raises.   *)
(* Messages (exception texts, HTTP details, printed lines) are sequences   *)
(* of segments, the way the f-strings of the source concatenate them.      *)
(***************************************************************************)
EXTENDS Integers, Sequences, FiniteSets, TLC

VARIABLES pc, op, req, resp, call, proc, scratch, pin, pout, decoded, session

vars == <<pc, op, req, resp, call, proc, scratch, pin, pout, decoded, session>>

---------------------------------------------------------------------------
(* Bounds                                                                  *)

MaxParseLen == 5

MaxSpecLen == 3

MaxPages == 3

MaxMergePages == 2

MaxFiles == 2

---------------------------------------------------------------------------
(* Messages: an f-string template, the values substituted into it, and the *)
(* prefixes put in front of it by wrappers.                                *)

Msg(text, arg, nums, n) ==
    [prefix |-> <<>>, text |-> text, arg |-> arg, nums |-> nums, n |-> n]

M(text) == Msg(text, <<>>, {}, 0)

NoMsg == M("")

Prefixed(p, m) == [m EXCEPT !.prefix = <<p>> \o @]

(* An exception: its class, its str() and, for HTTPException, its fields.  *)
Exc(cls, m) == [kind |-> "raise", exc |-> cls, msg |-> m, status |-> 0]

ValueErrorClasses == {"ValueError"}

too_many_values == M("too many values to unpack (expected 2)")

---------------------------------------------------------------------------
(* Python string primitives                                                *)

Digits == <<"0", "1", "2", "3", "4", "5", "6", "7", "8", "9">>

IsDigit(c) == \E i \in 1..10 : Digits[i] = c

DigitVal(c) == (CHOOSE i \in 1..10 : Digits[i] = c) - 1

Whitespace == {" "}

RECURSIVE lstrip(_)
lstrip(s) ==
    IF s # <<>> /\ Head(s) \in Whitespace THEN lstrip(Tail(s)) ELSE s

RECURSIVE rstrip(_)
rstrip(s) ==
    IF s # <<>> /\ s[Len(s)] \in Whitespace
    THEN rstrip(SubSeq(s, 1, Len(s) - 1))
    ELSE s

strip(s) == rstrip(lstrip(s))

Contains(s, c) == \E i \in 1..Len(s) : s[i] = c

RECURSIVE split(_, _)
split(s, sep) ==
    IF ~Contains(s, sep)
    THEN <<s>>
    ELSE LET i == CHOOSE k \in 1..Len(s) :
                      s[k] = sep /\ \A j \in 1..(k - 1) : s[j] # sep
         IN  <<SubSeq(s, 1, i - 1)>> \o split(SubSeq(s, i + 1, Len(s)), sep)

Upper == <<"A", "B", "C", "D", "F", "P", "T", "X">>

LowerOf == <<"a", "b", "c", "d", "f", "p", "t", "x">>

lowerChar(c) ==
    IF \E i \in 1..Len(Upper) : Upper[i] = c
    THEN LowerOf[CHOOSE i \in 1..Len(Upper) : Upper[i] = c]
    ELSE c

lower(s) == [i \in 1..Len(s) |-> lowerChar(s[i])]

endswith(s, suffix) ==
    /\ Len(s) >= Len(suffix)
    /\ SubSeq(s, Len(s) - Len(suffix) + 1, Len(s)) = suffix

DotPdf == <<".", "p", "d", "f">>

(* int(text): surrounding whitespace is stripped, one sign is allowed,     *)
(* then decimal digits, single underscores allowed between digits.         *)
IntBodyOk(t) ==
    /\ t # <<>>
    /\ \A i \in 1..Len(t) : IsDigit(t[i]) \/ t[i] = "_"
    /\ IsDigit(t[1]) /\ IsDigit(t[Len(t)])
    /\ \A i \in 1..(Len(t) - 1) : ~(t[i] = "_" /\ t[i + 1] = "_")

RECURSIVE IntBodyVal(_, _)
IntBodyVal(t, acc) ==
    IF t = <<>> THEN acc
    ELSE IF Head(t) = "_" THEN IntBodyVal(Tail(t), acc)
    ELSE IntBodyVal(Tail(t), 10 * acc + DigitVal(Head(t)))

int_digits(text, s, body) ==
    IF IntBodyOk(body)
    THEN [ok  |-> TRUE,
          val |-> IF Len(body) < Len(s) /\ Head(s) = "-"
                  THEN 0 - IntBodyVal(body, 0)
                  ELSE IntBodyVal(body, 0),
          msg |-> NoMsg]
    ELSE [ok  |-> FALSE,
          val |-> 0,
          msg |-> Msg("invalid literal for int() with base 10: {!r}", text, {}, 0)]

int_signed(text, s) ==
    int_digits(text, s, IF s # <<>> /\ Head(s) \in {"+", "-"} THEN Tail(s) ELSE s)

int(text) == int_signed(text, strip(text))

range(start, stop) == start..(stop - 1)

---------------------------------------------------------------------------
(* The page-spec parser, one copy per place it is written in the source    *)

http_page_range_exclusive(start, end) == range(start, end)

(* backend/main.py 84: the indices one range token contributes *)
http_page_range(start, end) == range(start, end + 1)

ParseOk(page_numbers) == [ok |-> TRUE, msg |-> NoMsg, pages |-> page_numbers]

ParseFails(m) == [ok |-> FALSE, msg |-> m, pages |-> {}]

(* `start, end = map(int, ...)` asked for a third value *)
http_unpack_third(c) ==
    IF c.ok THEN ParseFails(too_many_values) ELSE ParseFails(c.msg)

(* `start, end = map(int, part.split('-'))` and the range it gives *)
http_unpack(halves, a, b) ==
    IF ~a.ok THEN ParseFails(a.msg)
    ELSE IF ~b.ok THEN ParseFails(b.msg)
    ELSE IF Len(halves) > 2 THEN http_unpack_third(int(halves[3]))
    ELSE ParseOk(http_page_range(a.val, b.val))

http_parse_range(halves) == http_unpack(halves, int(halves[1]), int(halves[2]))

http_parse_single(v) == IF v.ok THEN ParseOk({v.val}) ELSE ParseFails(v.msg)

http_parse_token(part) ==
    IF Contains(part, "-") THEN http_parse_range(split(part, "-"))
    ELSE http_parse_single(int(part))

(* One comma-separated part, backend/main.py 81-86 *)
http_parse_part(raw) == http_parse_token(strip(raw))

RECURSIVE http_parse_loop(_, _)
http_parse_next(r, rest, page_numbers) ==
    IF r.ok THEN http_parse_loop(rest, page_numbers \cup r.pages) ELSE r

http_parse_loop(parts, page_numbers) ==
    IF parts = <<>> THEN ParseOk(page_numbers)
    ELSE http_parse_next(http_parse_part(Head(parts)), Tail(parts), page_numbers)

(* backend/main.py 79-86 *)
http_parse_pages(pages) == http_parse_loop(split(pages, ","), {})

cli_page_range_exclusive(start, end) == range(start, end)

(* cli/pdf_tool.py 99: the indices one range token contributes *)
cli_page_range(start, end) == range(start, end + 1)

(* `start, end = map(int, ...)` asked for a third value *)
cli_unpack_third(c) ==
    IF c.ok THEN ParseFails(too_many_values) ELSE ParseFails(c.msg)

(* `start, end = map(int, part.split('-'))` and the range it gives *)
cli_unpack(halves, a, b) ==
    IF ~a.ok THEN ParseFails(a.msg)
    ELSE IF ~b.ok THEN ParseFails(b.msg)
    ELSE IF Len(halves) > 2 THEN cli_unpack_third(int(halves[3]))
    ELSE ParseOk(cli_page_range(a.val, b.val))

cli_parse_range(halves) == cli_unpack(halves, int(halves[1]), int(halves[2]))

cli_parse_single(v) == IF v.ok THEN ParseOk({v.val}) ELSE ParseFails(v.msg)

cli_parse_token(part) ==
    IF Contains(part, "-") THEN cli_parse_range(split(part, "-"))
    ELSE cli_parse_single(int(part))

(* One comma-separated part, cli/pdf_tool.py 96-101 *)
cli_parse_part(raw) == cli_parse_token(strip(raw))

RECURSIVE cli_parse_loop(_, _)
cli_parse_next(r, rest, page_numbers) ==
    IF r.ok THEN cli_parse_loop(rest, page_numbers \cup r.pages) ELSE r

cli_parse_loop(parts, page_numbers) ==
    IF parts = <<>> THEN ParseOk(page_numbers)
    ELSE cli_parse_next(cli_parse_part(Head(parts)), Tail(parts), page_numbers)

(* cli/pdf_tool.py 94-101 *)
cli_parse_pages(pages) == cli_parse_loop(split(pages, ","), {})

(* cli/pdf_tool.py 234: the indices one range token contributes *)
interactive_page_range(start, end) == range(start, end + 1)

(* `start, end = map(int, ...)` asked for a third value *)
interactive_unpack_third(c) ==
    IF c.ok THEN ParseFails(too_many_values) ELSE ParseFails(c.msg)

(* `start, end = map(int, part.split('-'))` and the range it gives *)
interactive_unpack(halves, a, b) ==
    IF ~a.ok THEN ParseFails(a.msg)
    ELSE IF ~b.ok THEN ParseFails(b.msg)
    ELSE IF Len(halves) > 2 THEN interactive_unpack_third(int(halves[3]))
    ELSE ParseOk(interactive_page_range(a.val, b.val))

interactive_parse_range(halves) == interactive_unpack(halves, int(halves[1]), int(halves[2]))

interactive_parse_single(v) == IF v.ok THEN ParseOk({v.val}) ELSE ParseFails(v.msg)

interactive_parse_token(part) ==
    IF Contains(part, "-") THEN interactive_parse_range(split(part, "-"))
    ELSE interactive_parse_single(int(part))

(* One comma-separated part, cli/pdf_tool.py 231-236 *)
interactive_parse_part(raw) == interactive_parse_token(strip(raw))

RECURSIVE interactive_parse_loop(_, _)
interactive_parse_next(r, rest, page_numbers) ==
    IF r.ok THEN interactive_parse_loop(rest, page_numbers \cup r.pages) ELSE r

interactive_parse_loop(parts, page_numbers) ==
    IF parts = <<>> THEN ParseOk(page_numbers)
    ELSE interactive_parse_next(interactive_parse_part(Head(parts)), Tail(parts), page_numbers)

(* cli/pdf_tool.py 229-236 *)
interactive_parse_pages(pages_input) ==
    interactive_parse_loop(split(pages_input, ","), {})

---------------------------------------------------------------------------
(* Documents and PyPDF2                                                    *)

Page(src, k) == <<src, k>>

PdfContent(src, n) == [kind |-> "pdf", pages |-> [k \in 1..n |-> Page(src, k)],
                       exc |-> "", msg |-> NoMsg]

DecodeErrors == {"PdfReadError", "ValueError"}

DecodeMsg(cls) ==
    IF cls = "PdfReadError" THEN M("EOF marker not found")
    ELSE M("invalid literal for int() with base 10: b'obj'")

Corrupt(cls) == [kind |-> "corrupt", pages |-> <<>>, exc |-> cls, msg |-> DecodeMsg(cls)]

Absent == [kind |-> "absent", pages |-> <<>>, exc |-> "", msg |-> NoMsg]

(* PdfReader(stream) and its .pages: the page sequence, or the exception   *)
(* PyPDF2 raises on bytes it cannot decode.                                *)
PdfReader(content) ==
    IF content.kind = "pdf"
    THEN [kind |-> "return", pages |-> content.pages, exc |-> "", msg |-> NoMsg, status |-> 0]
    ELSE [kind |-> "raise", pages |-> <<>>, exc |-> content.exc, msg |-> content.msg, status |-> 0]

isinstance(e, cls) ==
    IF cls = "Exception" THEN TRUE
    ELSE IF cls = "ValueError" THEN e.exc \in ValueErrorClasses
    ELSE e.exc = cls

---------------------------------------------------------------------------
(* HTTP surface, backend/main.py                                           *)

NoResponse ==
    [status |-> 0, json |-> FALSE, detail |-> NoMsg, hasDoc |-> FALSE,
     doc |-> <<>>, disposition |-> "", count |-> 0 - 1, plain |-> ""]

DetailResponse(status, detail) ==
    [NoResponse EXCEPT !.status = status, !.json = TRUE, !.detail = detail]

StreamingResponse(doc, disposition) ==
    [NoResponse EXCEPT !.status = 200, !.hasDoc = TRUE, !.doc = doc,
                       !.disposition = disposition]

CountResponse(n) == [NoResponse EXCEPT !.status = 200, !.json = TRUE, !.count = n]

HTTPException(status, detail) ==
    [kind |-> "raise", exc |-> "HTTPException", msg |-> detail, status |-> status,
     value |-> NoResponse, reads |-> 0]

Returns(response) ==
    [kind |-> "return", exc |-> "", msg |-> NoMsg, status |-> 0, value |-> response,
     reads |-> 0]

Raises(e) ==
    [kind |-> "raise", exc |-> e.exc, msg |-> e.msg, status |-> e.status,
     value |-> NoResponse, reads |-> 0]

(* The outcome of a handler that has passed n inputs to PdfReader so far *)
AfterReads(outcome, n) == [outcome EXCEPT !.reads = n]

StatusPrefix(status) ==
    IF status = 400 THEN "400: " ELSE IF status = 404 THEN "404: " ELSE "500: "

(* str(e): HTTPException renders as "<status_code>: <detail>" *)
str(e) ==
    IF e.exc = "HTTPException" THEN Prefixed(StatusPrefix(e.status), e.msg)
    ELSE e.msg

(* What the framework sends for the outcome of a handler: the returned     *)
(* response, the status and detail of a raised HTTPException, or the plain *)
(* 500 of the server-error middleware for any other exception.             *)
respond(outcome) ==
    IF outcome.kind = "return" THEN outcome.value
    ELSE IF outcome.exc = "HTTPException"
    THEN DetailResponse(outcome.status, outcome.msg)
    ELSE [NoResponse EXCEPT !.status = 500, !.plain = "Internal Server Error"]

ValidationError == DetailResponse(422, M("field required"))

is_pdf_name(filename) == endswith(lower(filename), DotPdf)

RECURSIVE merge_try(_, _, _)
merge_add_pages_prepend(files, i, merger, pdf) ==
    IF pdf.kind = "raise" THEN AfterReads(Raises(pdf), i)
    ELSE merge_try(files, i + 1, pdf.pages \o merger)

(* backend/main.py 58-60: decode one upload and append its pages *)
merge_add_pages(files, i, merger, pdf) ==
    IF pdf.kind = "raise" THEN AfterReads(Raises(pdf), i)
    ELSE merge_try(files, i + 1, merger \o pdf.pages)

merge_try_reads_before_check(files, i, merger) ==
    IF i > Len(files)
    THEN AfterReads(Returns(StreamingResponse(merger, "attachment; filename=merged.pdf")),
                    i - 1)
    ELSE IF PdfReader(files[i].content).kind = "raise"
    THEN AfterReads(Raises(PdfReader(files[i].content)), i)
    ELSE IF ~is_pdf_name(files[i].filename)
    THEN AfterReads(HTTPException(400, Msg("File {file.filename} is not a PDF",
                                           files[i].filename, {}, 0)),
                    i)
    ELSE merge_try(files, i + 1, merger \o PdfReader(files[i].content).pages)

(* backend/main.py 54-68: the body of the try block of merge_pdfs *)
merge_try(files, i, merger) ==
    IF i > Len(files)
    THEN AfterReads(Returns(StreamingResponse(merger, "attachment; filename=merged.pdf")),
                    i - 1)
    ELSE IF ~is_pdf_name(files[i].filename)
    THEN AfterReads(HTTPException(400, Msg("File {file.filename} is not a PDF",
                                           files[i].filename, {}, 0)),
                    i - 1)
    ELSE merge_add_pages(files, i, merger, PdfReader(files[i].content))

(* backend/main.py 69-70: `except Exception as e` *)
merge_except(r) ==
    IF r.kind = "raise" /\ isinstance(r, "Exception")
    THEN AfterReads(HTTPException(500, str(r)), r.reads)
    ELSE r

merge_pdfs_needs_one(files) ==
    IF Len(files) < 1
    THEN HTTPException(400, M("At least 2 PDF files are required"))
    ELSE merge_except(merge_try(files, 1, <<>>))

(* backend/main.py 49-70 *)
merge_pdfs(files) ==
    IF Len(files) < 2
    THEN HTTPException(400, M("At least 2 PDF files are required"))
    ELSE merge_except(merge_try(files, 1, <<>>))

(* POST /merge: `files` is a required multipart field (File(...)) *)
post_merge(files) ==
    IF Len(files) = 0 THEN ValidationError ELSE respond(merge_pdfs(files))

RECURSIVE http_keep_pages_zero_based(_, _, _)
http_keep_pages_zero_based(pages, i, page_numbers) ==
    IF i >= Len(pages) THEN <<>>
    ELSE (IF i \notin page_numbers THEN <<pages[i + 1]>> ELSE <<>>)
         \o http_keep_pages_zero_based(pages, i + 1, page_numbers)

(* backend/main.py 90-92 *)
RECURSIVE http_keep_pages(_, _, _)
http_keep_pages(pages, i, page_numbers) ==
    IF i >= Len(pages) THEN <<>>
    ELSE (IF (i + 1) \notin page_numbers THEN <<pages[i + 1]>> ELSE <<>>)
         \o http_keep_pages(pages, i + 1, page_numbers)

delete_write_needs_a_page(pdf, page_numbers) ==
    IF pdf.kind = "raise" THEN AfterReads(Raises(pdf), 1)
    ELSE IF \A i \in 1..Len(pdf.pages) : i \in page_numbers
    THEN AfterReads(Raises(Exc("ValueError", M("Cannot delete all pages"))), 1)
    ELSE AfterReads(Returns(StreamingResponse(http_keep_pages(pdf.pages, 0, page_numbers),
                                              "attachment; filename=modified.pdf")),
                    1)

(* backend/main.py 88-100: decode, drop the pages, stream the result *)
delete_write(pdf, page_numbers) ==
    IF pdf.kind = "raise" THEN AfterReads(Raises(pdf), 1)
    ELSE AfterReads(Returns(StreamingResponse(http_keep_pages(pdf.pages, 0, page_numbers),
                                              "attachment; filename=modified.pdf")),
                    1)

delete_after_parse(file, parsed) ==
    IF ~parsed.ok THEN Raises(Exc("ValueError", parsed.msg))
    ELSE delete_write(PdfReader(file.content), parsed.pages)

delete_try_decodes_first(file, pages) ==
    IF PdfReader(file.content).kind = "raise"
    THEN AfterReads(Raises(PdfReader(file.content)), 1)
    ELSE delete_after_parse(file, http_parse_pages(pages))

(* backend/main.py 79-100: the body of the try block of delete_pages *)
delete_try(file, pages) == delete_after_parse(file, http_parse_pages(pages))

delete_except_without_value_error(r) ==
    IF r.kind = "raise" /\ isinstance(r, "Exception")
    THEN AfterReads(HTTPException(500, str(r)), r.reads)
    ELSE r

(* backend/main.py 101-104: `except ValueError`, then `except Exception` *)
delete_except(r) ==
    IF r.kind = "raise" /\ isinstance(r, "ValueError")
    THEN AfterReads(HTTPException(400, M("Invalid page range format")), r.reads)
    ELSE IF r.kind = "raise" /\ isinstance(r, "Exception")
    THEN AfterReads(HTTPException(500, str(r)), r.reads)
    ELSE r

(* backend/main.py 73-104 *)
delete_pages(file, pages) ==
    IF ~is_pdf_name(file.filename)
    THEN HTTPException(400, M("File must be a PDF"))
    ELSE IF pages = <<>>
    THEN HTTPException(400, M("Pages parameter is required"))
    ELSE delete_except(delete_try(file, pages))

(* The number of uploads POST /merge has passed to PdfReader *)
post_merge_reads(files) == IF Len(files) = 0 THEN 0 ELSE merge_pdfs(files).reads

(* POST /delete-pages: `pages` is a required form field (Form(...)) *)
post_delete_pages(file, hasPages, pages) ==
    IF ~hasPages THEN ValidationError ELSE respond(delete_pages(file, pages))

(* The number of uploads POST /delete-pages has passed to PdfReader *)
post_delete_pages_reads(file, hasPages, pages) ==
    IF ~hasPages THEN 0 ELSE delete_pages(file, pages).reads

(* backend/main.py 113-114 *)
page_count_of(reader) ==
    IF reader.kind = "raise" THEN AfterReads(Raises(reader), 1)
    ELSE AfterReads(Returns(CountResponse(Len(reader.pages))), 1)

get_page_count_exists_first(filename, dir) ==
    IF dir[filename].kind = "absent"
    THEN HTTPException(404, M("File not found"))
    ELSE IF ~endswith(filename, DotPdf)
    THEN HTTPException(400, M("File is not a PDF"))
    ELSE page_count_of(PdfReader(dir[filename]))

(* backend/main.py 107-114 *)
get_page_count(filename, dir) ==
    IF ~endswith(filename, DotPdf)
    THEN HTTPException(400, M("File is not a PDF"))
    ELSE IF dir[filename].kind = "absent"
    THEN HTTPException(404, M("File not found"))
    ELSE page_count_of(PdfReader(dir[filename]))

---------------------------------------------------------------------------
(* CLI surface, cli/pdf_tool.py                                            *)

NoCall ==
    [kind |-> "none", exc |-> "", msg |-> NoMsg, status |-> 0, value |-> <<>>,
     written |-> FALSE, doc |-> <<>>, deleted |-> 0, kept |-> 0, count |-> 0 - 1,
     reads |-> 0]

CliRaise(cls, m) == [NoCall EXCEPT !.kind = "raise", !.exc = cls, !.msg = m]

(* `except Exception as e: raise Exception(f"<prefix>{str(e)}")` *)
Wrapped(prefix, e) == CliRaise("Exception", Prefixed(prefix, str(e)))

exists(file) == file.content.kind # "absent"

merged_pdf == <<"m", "e", "r", "g", "e", "d", ".", "p", "d", "f">>

modified_suffix == <<"_", "m", "o", "d", "i", "f", "i", "e", "d", ".", "p", "d", "f">>

(* The last dot of path that has something other than dots before it *)
ext_dots(path) ==
    {i \in 2..Len(path) : path[i] = "." /\ \E j \in 1..(i - 1) : path[j] # "."}

(* os.path.splitext(path)[0]: the path without its last extension *)
splitext_root(path) ==
    IF ext_dots(path) = {} THEN path
    ELSE SubSeq(path, 1, (CHOOSE i \in ext_dots(path) :
                              \A j \in ext_dots(path) : j <= i) - 1)

(* cli/pdf_tool.py 35-39: the inputs that fail validation *)
invalid_inputs(input_files) ==
    {i \in 1..Len(input_files) :
        ~exists(input_files[i]) \/ ~is_pdf_name(input_files[i].path)}

RECURSIVE cli_merge_read(_, _, _)
cli_merge_add(input_files, i, merger, pdf) ==
    IF pdf.kind = "raise"
    THEN [kind |-> "raise", pages |-> <<>>, exc |-> pdf.exc, msg |-> pdf.msg,
          status |-> 0, reads |-> i]
    ELSE cli_merge_read(input_files, i + 1, merger \o pdf.pages)

(* cli/pdf_tool.py 50-56 *)
cli_merge_read(input_files, i, merger) ==
    IF i > Len(input_files)
    THEN [kind |-> "return", pages |-> merger, exc |-> "", msg |-> NoMsg,
          status |-> 0, reads |-> i - 1]
    ELSE cli_merge_add(input_files, i, merger, PdfReader(input_files[i].content))

cli_merge_write_opens_output_first(r) ==
    IF r.kind = "raise"
    THEN [Wrapped("Error merging PDFs: ", r) EXCEPT !.reads = r.reads, !.written = TRUE]
    ELSE [NoCall EXCEPT !.kind = "return", !.value = merged_pdf,
                        !.written = TRUE, !.doc = r.pages, !.reads = r.reads]

(* cli/pdf_tool.py 58-67: write the merged document, or wrap the failure *)
cli_merge_write(r) ==
    IF r.kind = "raise"
    THEN [Wrapped("Error merging PDFs: ", r) EXCEPT !.reads = r.reads]
    ELSE [NoCall EXCEPT !.kind = "return", !.value = merged_pdf,
                        !.written = TRUE, !.doc = r.pages, !.reads = r.reads]

(* cli/pdf_tool.py 35-39: the error of the first input that fails validation *)
cli_merge_invalid(file) ==
    IF ~exists(file)
    THEN CliRaise("FileNotFoundError", Msg("File not found: {file_path}", file.path, {}, 0))
    ELSE CliRaise("ValueError", Msg("File is not a PDF: {file_path}", file.path, {}, 0))

(* PDFTool.merge_pdfs, cli/pdf_tool.py 20-67, output_file left to default *)
tool_merge_pdfs(input_files) ==
    IF Len(input_files) < 2
    THEN CliRaise("ValueError", M("At least 2 PDF files are required for merging"))
    ELSE IF invalid_inputs(input_files) # {}
    THEN cli_merge_invalid(input_files[CHOOSE i \in invalid_inputs(input_files) :
                               \A j \in invalid_inputs(input_files) : i <= j])
    ELSE cli_merge_write(cli_merge_read(input_files, 1, <<>>))

(* cli/pdf_tool.py 121-125 *)
RECURSIVE cli_keep_pages(_, _, _)
cli_keep_pages(pages, i, page_numbers) ==
    IF i >= Len(pages) THEN <<>>
    ELSE (IF (i + 1) \notin page_numbers THEN <<pages[i + 1]>> ELSE <<>>)
         \o cli_keep_pages(pages, i + 1, page_numbers)

cli_invalid_pages_upper_only(page_numbers, total_pages) ==
    {q \in page_numbers : q > total_pages}

(* cli/pdf_tool.py 114 *)
cli_invalid_pages(page_numbers, total_pages) ==
    {q \in page_numbers : q < 1 \/ q > total_pages}

(* cli/pdf_tool.py 127-134: write the kept pages, report the counts *)
cli_delete_write(kept, page_numbers, output_file) ==
    [NoCall EXCEPT !.kind = "return", !.value = output_file, !.written = TRUE,
                   !.doc = kept, !.deleted = Cardinality(page_numbers),
                   !.kept = Len(kept), !.reads = 1]

cli_delete_validate_unchecked(pages, page_numbers, invalid_pages, output_file) ==
    cli_delete_write(cli_keep_pages(pages, 0, page_numbers), page_numbers, output_file)

(* cli/pdf_tool.py 113-125 *)
cli_delete_validate(pages, page_numbers, invalid_pages, output_file) ==
    IF invalid_pages # {}
    THEN [CliRaise("ValueError",
              Msg("Invalid page numbers: {invalid_pages}. Pages must be between 1 and {total_pages}",
                  <<>>, invalid_pages, Len(pages)))
          EXCEPT !.reads = 1]
    ELSE cli_delete_write(cli_keep_pages(pages, 0, page_numbers), page_numbers, output_file)

(* cli/pdf_tool.py 106-116 *)
cli_delete_after_read(pdf, page_numbers, output_file) ==
    IF pdf.kind = "raise" THEN [CliRaise(pdf.exc, pdf.msg) EXCEPT !.reads = 1]
    ELSE cli_delete_validate(pdf.pages, page_numbers,
                             cli_invalid_pages(page_numbers, Len(pdf.pages)), output_file)

cli_delete_after_parse(input_file, parsed, output_file) ==
    IF ~parsed.ok THEN CliRaise("ValueError", parsed.msg)
    ELSE cli_delete_after_read(PdfReader(input_file.content), parsed.pages, output_file)

(* cli/pdf_tool.py 93-134: the body of the try block of delete_pages *)
cli_delete_try(input_file, pages_to_delete, output_file) ==
    cli_delete_after_parse(input_file, cli_parse_pages(pages_to_delete), output_file)

(* cli/pdf_tool.py 136-137: `except Exception as e` *)
cli_delete_except(r) ==
    IF r.kind = "raise" /\ isinstance(r, "Exception")
    THEN [Wrapped("Error deleting pages: ", r) EXCEPT !.reads = r.reads]
    ELSE r

(* PDFTool.delete_pages, cli/pdf_tool.py 69-137, output_file left to default *)
tool_delete_pages(input_file, pages_to_delete) ==
    IF ~exists(input_file)
    THEN CliRaise("FileNotFoundError",
                  Msg("File not found: {input_file}", input_file.path, {}, 0))
    ELSE IF ~is_pdf_name(input_file.path)
    THEN CliRaise("ValueError",
                  Msg("File is not a PDF: {input_file}", input_file.path, {}, 0))
    ELSE cli_delete_except(
             cli_delete_try(input_file, pages_to_delete,
                            splitext_root(input_file.path) \o modified_suffix))

(* cli/pdf_tool.py 147-149 *)
tool_count_of(pdf) ==
    IF pdf.kind = "raise" THEN [CliRaise(pdf.exc, pdf.msg) EXCEPT !.reads = 1]
    ELSE [NoCall EXCEPT !.kind = "return", !.count = Len(pdf.pages), !.reads = 1]

(* PDFTool.get_page_count, cli/pdf_tool.py 139-149 *)
tool_get_page_count(file) ==
    IF ~exists(file)
    THEN CliRaise("FileNotFoundError",
                  Msg("File not found: {file_path}", file.path, {}, 0))
    ELSE IF ~is_pdf_name(file.path)
    THEN CliRaise("ValueError",
                  Msg("File is not a PDF: {file_path}", file.path, {}, 0))
    ELSE tool_count_of(PdfReader(file.content))

NoProc == [ran |-> FALSE, exit |-> 0, error |-> FALSE, printed |-> NoMsg]

main_command_without_exit(outcome) ==
    IF outcome.kind = "raise" /\ isinstance(outcome, "Exception")
    THEN [ran |-> TRUE, exit |-> 0, error |-> TRUE,
          printed |-> Prefixed("Error: ", str(outcome))]
    ELSE [ran |-> TRUE, exit |-> 0, error |-> FALSE, printed |-> NoMsg]

(* main(), cli/pdf_tool.py 326-344: the process outcome of one subcommand  *)
main_command(outcome) ==
    IF outcome.kind = "raise" /\ isinstance(outcome, "Exception")
    THEN [ran |-> TRUE, exit |-> 1, error |-> TRUE,
          printed |-> Prefixed("Error: ", str(outcome))]
    ELSE [ran |-> TRUE, exit |-> 0, error |-> FALSE, printed |-> NoMsg]

(* argparse rejects `merge` with no file at all (nargs='+'), exit status 2 *)
main_merge(input_files, outcome) ==
    IF Len(input_files) = 0
    THEN [ran |-> TRUE, exit |-> 2, error |-> TRUE,
          printed |-> M("the following arguments are required: files")]
    ELSE main_command(outcome)

---------------------------------------------------------------------------
(* interactive_delete(), cli/pdf_tool.py 193-257                           *)

(* What the session has asked and printed so far, and the prompt it is at  *)
NoSession ==
    [at |-> "ask_path", file |-> [path |-> <<>>, content |-> Absent],
     page_count |-> 0 - 1, pages_input |-> <<>>, printed |-> NoMsg]

(* cli/pdf_tool.py 200-210: the line printed for a path that is not taken  *)
interactive_path_refusal(file) ==
    IF file.path = <<>> THEN M("Please enter a valid file path.")
    ELSE IF ~exists(file) THEN Msg("File not found: {file_path}", file.path, {}, 0)
    ELSE IF ~is_pdf_name(file.path)
    THEN Msg("File is not a PDF: {file_path}", file.path, {}, 0)
    ELSE NoMsg

(* cli/pdf_tool.py 216: get_page_count is called once the path is taken *)
interactive_count(file) ==
    IF interactive_path_refusal(file) # NoMsg THEN NoCall
    ELSE tool_get_page_count(file)

(* cli/pdf_tool.py 214-218, 256-257: the session after the count *)
interactive_after_count(file, counted) ==
    IF counted.kind = "raise" /\ isinstance(counted, "Exception")
    THEN [NoSession EXCEPT !.at = "done", !.file = file,
                           !.printed = Prefixed("Error: ", str(counted))]
    ELSE [NoSession EXCEPT !.at = "ask_pages", !.file = file,
                           !.page_count = counted.count,
                           !.printed = Msg("Total pages in PDF: {page_count}",
                                           <<>>, {}, counted.count)]

(* cli/pdf_tool.py 197-218: one answer to the file path prompt *)
interactive_after_path(file, refusal, counted) ==
    IF refusal # NoMsg
    THEN [NoSession EXCEPT !.at = "refused_path", !.file = file, !.printed = refusal]
    ELSE interactive_after_count(file, counted)

interactive_pages_checked_above_count(parsed, page_count) ==
    IF ~parsed.ok
    THEN M("Invalid page format. Use numbers and ranges like: 1,3-5,7")
    ELSE IF Cardinality(parsed.pages) > page_count
    THEN M("Cannot delete all pages. At least one page must remain.")
    ELSE NoMsg

(* cli/pdf_tool.py 238-247: the line printed for a spec that was parsed or *)
(* failed to parse, nothing when the loop is left                          *)
interactive_pages_checked(parsed, page_count) ==
    IF ~parsed.ok
    THEN M("Invalid page format. Use numbers and ranges like: 1,3-5,7")
    ELSE IF Cardinality(parsed.pages) >= page_count
    THEN M("Cannot delete all pages. At least one page must remain.")
    ELSE NoMsg

(* cli/pdf_tool.py 221-247: the line printed for a spec that is not taken  *)
interactive_pages_refusal(pages_input, page_count) ==
    IF pages_input = <<>> THEN M("Please enter page numbers.")
    ELSE interactive_pages_checked(interactive_parse_pages(pages_input), page_count)

(* cli/pdf_tool.py 249-254: delete_pages is called once the spec is taken, *)
(* the output filename prompt answered with an empty line                  *)
interactive_delete_call(file, pages_input, page_count) ==
    IF interactive_pages_refusal(pages_input, page_count) # NoMsg THEN NoCall
    ELSE tool_delete_pages(file, pages_input)

(* cli/pdf_tool.py 254-257: the session after delete_pages *)
interactive_after_delete(sn, pages_input, deleted) ==
    IF deleted.kind = "raise" /\ isinstance(deleted, "Exception")
    THEN [sn EXCEPT !.at = "done", !.pages_input = pages_input,
                    !.printed = Prefixed("Error: ", str(deleted))]
    ELSE [sn EXCEPT !.at = "done", !.pages_input = pages_input,
                    !.printed = Msg("Successfully deleted {len(page_numbers)} pages. Kept {pages_kept} pages.",
                                    <<>>, {deleted.deleted}, deleted.kept)]

(* cli/pdf_tool.py 202, 206, 210, 225, 241, 247: `continue`, back to the  *)
(* prompt the refused answer was typed at                                  *)
interactive_continue(sn) ==
    IF sn.at = "refused_path" THEN NoSession
    ELSE [sn EXCEPT !.at = "ask_pages", !.pages_input = <<>>, !.printed = NoMsg]

(* cli/pdf_tool.py 220-257: one answer to the pages prompt *)
interactive_after_pages(sn, pages_input, refusal, deleted) ==
    IF refusal # NoMsg
    THEN [sn EXCEPT !.at = "refused_pages", !.pages_input = pages_input,
                    !.printed = refusal]
    ELSE interactive_after_delete(sn, pages_input, deleted)

---------------------------------------------------------------------------
(* Inputs                                                                  *)

SeqsUpTo(S, n) == UNION {[1..k -> S] : k \in 0..n}

SpecChars == {"0", "1", "2", ",", "-", " ", "a"}

ParseChars == {"1", "2", "3", ",", "-", " ", "a"}

Names == {<<"a", ".", "p", "d", "f">>,
          <<"A", ".", "P", "D", "F">>,
          <<"b", ".", "t", "x", "t">>}

Shapes(maxp) ==
    {[k |-> "pdf", n |-> n, exc |-> ""] : n \in 0..maxp}
        \cup {[k |-> "corrupt", n |-> 0, exc |-> e] : e \in DecodeErrors}

StoredShapes(maxp) == Shapes(maxp) \cup {[k |-> "absent", n |-> 0, exc |-> ""]}

ContentOf(src, shape) ==
    IF shape.k = "pdf" THEN PdfContent(src, shape.n)
    ELSE IF shape.k = "corrupt" THEN Corrupt(shape.exc)
    ELSE Absent

(* The uploads of one multipart request: the i-th has pages <<i, 1>>, ... *)
Uploads(maxf, maxp) ==
    UNION {{[i \in 1..k |-> [filename |-> nm[i], content |-> ContentOf(i, sh[i])]] :
               nm \in [1..k -> Names], sh \in [1..k -> Shapes(maxp)]} : k \in 0..maxf}

(* The paths of one command line, each with what the file system holds *)
Paths(maxf, maxp) ==
    UNION {{[i \in 1..k |-> [path |-> nm[i], content |-> ContentOf(i, sh[i])]] :
               nm \in [1..k -> Names], sh \in [1..k -> StoredShapes(maxp)]} : k \in 0..maxf}

(* What is typed at the prompts of interactive_delete *)
PagesInputs == SeqsUpTo(SpecChars, MaxSpecLen)

PathInputs == Names \cup {<<>>, <<" ">>}

(* The names GET /page-count is asked for *)
ScratchNames ==
    Names \cup {<<"c", ".", "p", "d", "f">>,
                <<"d", ".", "p", "d", "f">>,
                <<"e", ".", "p", "d", "f">>,
                <<"e", ".", "t", "x", "t">>}

(* Contents of the scratch directory temp/ when the server starts: two     *)
(* decodable files under .pdf names of either case, one decodable file     *)
(* under another suffix, two undecodable files, and two names without a    *)
(* file.                                                                   *)
ScratchDir ==
    [nm \in ScratchNames |->
        IF nm = <<"a", ".", "p", "d", "f">> THEN PdfContent(1, 2)
        ELSE IF nm = <<"A", ".", "P", "D", "F">> THEN PdfContent(1, 1)
        ELSE IF nm = <<"b", ".", "t", "x", "t">> THEN PdfContent(1, 3)
        ELSE IF nm = <<"c", ".", "p", "d", "f">> THEN Corrupt("PdfReadError")
        ELSE IF nm = <<"d", ".", "p", "d", "f">> THEN Corrupt("ValueError")
        ELSE Absent]

NoReq == [files |-> <<>>, name |-> <<>>, content |-> Absent,
          hasPages |-> FALSE, pages |-> <<>>]

NoParse == [done |-> FALSE,
            http |-> [ok |-> FALSE, msg |-> NoMsg, pages |-> {}],
            cli  |-> [ok |-> FALSE, msg |-> NoMsg, pages |-> {}],
            interactive |-> [ok |-> FALSE, msg |-> NoMsg, pages |-> {}]]

---------------------------------------------------------------------------
(* The server and the command line, one request or invocation at a time    *)

Init ==
    /\ pc = "idle"
    /\ op = "none"
    /\ req = NoReq
    /\ resp = NoResponse
    /\ call = NoCall
    /\ proc = NoProc
    /\ scratch = ScratchDir
    /\ pin = <<>>
    /\ pout = NoParse
    /\ decoded = 0
    /\ session = NoSession

PostMerge ==
    /\ pc = "idle"
    /\ \E files \in Uploads(MaxFiles, MaxMergePages) :
          /\ req' = [NoReq EXCEPT !.files = files]
          /\ resp' = post_merge(files)
          /\ decoded' = post_merge_reads(files)
    /\ pc' = "done"
    /\ op' = "POST /merge"
    /\ UNCHANGED <<call, proc, scratch, pin, pout, session>>

PostDeletePages_stages_upload ==
    /\ pc = "idle"
    /\ \E nm \in Names, sh \in Shapes(MaxPages), hasPages \in BOOLEAN,
          pages \in SeqsUpTo(SpecChars, MaxSpecLen) :
          /\ hasPages \/ pages = <<>>
          /\ req' = [NoReq EXCEPT !.name = nm, !.content = ContentOf(1, sh),
                                  !.hasPages = hasPages, !.pages = pages]
          /\ resp' = post_delete_pages([filename |-> req'.name, content |-> req'.content],
                                       hasPages, pages)
          /\ decoded' = post_delete_pages_reads(
                             [filename |-> req'.name, content |-> req'.content],
                             hasPages, pages)
          /\ scratch' = [scratch EXCEPT ![nm] = req'.content]
    /\ pc' = "done"
    /\ op' = "POST /delete-pages"
    /\ UNCHANGED <<call, proc, pin, pout, session>>

PostDeletePages ==
    /\ pc = "idle"
    /\ \E nm \in Names, sh \in Shapes(MaxPages), hasPages \in BOOLEAN,
          pages \in SeqsUpTo(SpecChars, MaxSpecLen) :
          /\ hasPages \/ pages = <<>>
          /\ req' = [NoReq EXCEPT !.name = nm, !.content = ContentOf(1, sh),
                                  !.hasPages = hasPages, !.pages = pages]
          /\ resp' = post_delete_pages([filename |-> req'.name, content |-> req'.content],
                                       hasPages, pages)
          /\ decoded' = post_delete_pages_reads(
                             [filename |-> req'.name, content |-> req'.content],
                             hasPages, pages)
    /\ pc' = "done"
    /\ op' = "POST /delete-pages"
    /\ UNCHANGED <<call, proc, scratch, pin, pout, session>>

GetPageCount ==
    /\ pc = "idle"
    /\ \E nm \in ScratchNames :
          /\ req' = [NoReq EXCEPT !.name = nm]
          /\ resp' = respond(get_page_count(nm, scratch))
          /\ decoded' = get_page_count(nm, scratch).reads
    /\ pc' = "done"
    /\ op' = "GET /page-count"
    /\ UNCHANGED <<call, proc, scratch, pin, pout, session>>

CliMerge ==
    /\ pc = "idle"
    /\ \E files \in Paths(MaxFiles, MaxMergePages) :
          /\ req' = [NoReq EXCEPT !.files = files]
          /\ call' = tool_merge_pdfs(files)
          /\ proc' = main_merge(files, call')
          /\ decoded' = call'.reads
    /\ pc' = "done"
    /\ op' = "merge"
    /\ UNCHANGED <<resp, scratch, pin, pout, session>>

CliDelete ==
    /\ pc = "idle"
    /\ \E nm \in Names, sh \in StoredShapes(MaxPages),
          pages \in SeqsUpTo(SpecChars, MaxSpecLen) :
          /\ req' = [NoReq EXCEPT !.name = nm, !.content = ContentOf(1, sh),
                                  !.hasPages = TRUE, !.pages = pages]
          /\ call' = tool_delete_pages([path |-> req'.name, content |-> req'.content], pages)
          /\ proc' = main_command(call')
          /\ decoded' = call'.reads
    /\ pc' = "done"
    /\ op' = "delete"
    /\ UNCHANGED <<resp, scratch, pin, pout, session>>

CliInfo ==
    /\ pc = "idle"
    /\ \E nm \in Names, sh \in StoredShapes(MaxPages) :
          /\ req' = [NoReq EXCEPT !.name = nm, !.content = ContentOf(1, sh)]
          /\ call' = tool_get_page_count([path |-> req'.name, content |-> req'.content])
          /\ proc' = main_command(call')
          /\ decoded' = call'.reads
    /\ pc' = "done"
    /\ op' = "info"
    /\ UNCHANGED <<resp, scratch, pin, pout, session>>

(* The request has been answered, or the process has exited: the next one *)
(* starts from nothing but the scratch directory.                          *)
NextRequest ==
    /\ pc = "done"
    /\ pc' = "idle"
    /\ op' = "none"
    /\ req' = NoReq
    /\ resp' = NoResponse
    /\ call' = NoCall
    /\ proc' = NoProc
    /\ decoded' = 0
    /\ session' = NoSession
    /\ UNCHANGED <<scratch, pin, pout>>

(* main(), cli/pdf_tool.py 311-316: choice 2 of the menu *)
InteractiveDelete ==
    /\ pc = "idle"
    /\ pc' = "ask_path"
    /\ op' = "interactive delete"
    /\ session' = NoSession
    /\ UNCHANGED <<req, resp, call, proc, scratch, pin, pout, decoded>>

(* interactive_delete(), cli/pdf_tool.py 197-218: a line typed at the file *)
(* path prompt, up to the next prompt or the end of the session            *)
EnterFilePath ==
    /\ pc = "ask_path"
    /\ \E typed \in PathInputs, sh \in StoredShapes(MaxPages) :
          /\ strip(typed) = <<>> => sh.k = "absent"
          /\ req' = [NoReq EXCEPT !.name = strip(typed), !.content = ContentOf(1, sh)]
          /\ call' = interactive_count([path |-> req'.name, content |-> req'.content])
          /\ session' = interactive_after_path(
                             [path |-> req'.name, content |-> req'.content],
                             interactive_path_refusal(
                                 [path |-> req'.name, content |-> req'.content]),
                             call')
    /\ pc' = session'.at
    /\ decoded' = call'.reads
    /\ UNCHANGED <<op, resp, proc, scratch, pin, pout>>

(* interactive_delete(), cli/pdf_tool.py 220-257: a line typed at the      *)
(* pages prompt, up to the next prompt or the end of the session           *)
EnterPages ==
    /\ pc = "ask_pages"
    /\ \E typed \in PagesInputs :
          /\ req' = [req EXCEPT !.hasPages = TRUE, !.pages = strip(typed)]
          /\ call' = interactive_delete_call(session.file, req'.pages, session.page_count)
          /\ session' = interactive_after_pages(
                             session, req'.pages,
                             interactive_pages_refusal(req'.pages, session.page_count),
                             call')
    /\ pc' = session'.at
    /\ decoded' = call'.reads
    /\ UNCHANGED <<op, resp, proc, scratch, pin, pout>>

(* interactive_delete(), the `continue` after a refused answer *)
PromptAgain ==
    /\ pc \in {"refused_path", "refused_pages"}
    /\ session' = interactive_continue(session)
    /\ pc' = session'.at
    /\ req' = IF pc = "refused_path" THEN NoReq
              ELSE [req EXCEPT !.hasPages = FALSE, !.pages = <<>>]
    /\ call' = NoCall
    /\ decoded' = 0
    /\ UNCHANGED <<op, resp, proc, scratch, pin, pout>>

Next ==
    \/ PostMerge
    \/ PostDeletePages
    \/ GetPageCount
    \/ CliMerge
    \/ CliDelete
    \/ CliInfo
    \/ InteractiveDelete
    \/ EnterFilePath
    \/ EnterPages
    \/ PromptAgain
    \/ NextRequest

Spec == Init /\ [][Next]_vars

---------------------------------------------------------------------------
(* The parser alone, on every string over ParseChars                       *)

InitParse ==
    /\ pc = "idle"
    /\ op = "none"
    /\ req = NoReq
    /\ resp = NoResponse
    /\ call = NoCall
    /\ proc = NoProc
    /\ scratch = ScratchDir
    /\ pin \in SeqsUpTo(ParseChars, MaxParseLen)
    /\ pout = NoParse
    /\ decoded = 0
    /\ session = NoSession

ParsePages ==
    /\ pc = "idle"
    /\ pout' = [done |-> TRUE, http |-> http_parse_pages(pin),
                cli |-> cli_parse_pages(pin),
                interactive |-> interactive_parse_pages(pin)]
    /\ pc' = "done"
    /\ op' = "parse"
    /\ UNCHANGED <<req, resp, call, proc, scratch, pin, decoded, session>>

NextParse == ParsePages

SpecParse == InitParse /\ [][NextParse]_vars

---------------------------------------------------------------------------
(* The page-spec grammar, stated on positions of the string                *)

(* s[a..b] is a non-empty run of decimal digits *)
IsNumberAt(s, a, b) == a <= b /\ \A k \in a..b : IsDigit(s[k])

RECURSIVE DecimalAt(_, _, _)
DecimalAt(s, a, b) ==
    IF a > b THEN 0 ELSE 10 * DecimalAt(s, a, b - 1) + DigitVal(s[b])

(* s[i..j] is a maximal comma-free stretch of s (possibly empty, j = i - 1) *)
Segments(s) ==
    {sg \in (1..(Len(s) + 1)) \X (0..Len(s)) :
        /\ sg[2] >= sg[1] - 1
        /\ (sg[1] = 1 \/ s[sg[1] - 1] = ",")
        /\ (sg[2] = Len(s) \/ s[sg[2] + 1] = ",")
        /\ \A k \in sg[1]..sg[2] : s[k] # ","}

(* The tokens s[a..b] the segment s[i..j] can be read as: the segment less *)
(* its surrounding blanks, being a number or two numbers around a hyphen.  *)
TokensOf(s, sg) ==
    {t \in (sg[1]..sg[2]) \X (sg[1]..sg[2]) \X ({0} \cup (sg[1]..sg[2])) :
        /\ t[1] <= t[2]
        /\ \A k \in sg[1]..(t[1] - 1) : s[k] = " "
        /\ \A k \in (t[2] + 1)..sg[2] : s[k] = " "
        /\ \/ t[3] = 0 /\ IsNumberAt(s, t[1], t[2])
           \/ /\ t[3] # 0
              /\ s[t[3]] = "-"
              /\ IsNumberAt(s, t[1], t[3] - 1)
              /\ IsNumberAt(s, t[3] + 1, t[2])}

WellFormedSpec(s) == \A sg \in Segments(s) : TokensOf(s, sg) # {}

TokenPages(s, t) ==
    IF t[3] = 0 THEN {DecimalAt(s, t[1], t[2])}
    ELSE DecimalAt(s, t[1], t[3] - 1)..DecimalAt(s, t[3] + 1, t[2])

ExpectedPages(s) ==
    UNION {TokenPages(s, t) : t \in UNION {TokensOf(s, sg) : sg \in Segments(s)}}

HasReversedRange(s) ==
    \E sg \in Segments(s) : \E t \in TokensOf(s, sg) :
        t[3] # 0 /\ DecimalAt(s, t[1], t[3] - 1) > DecimalAt(s, t[3] + 1, t[2])

---------------------------------------------------------------------------
(* C1: for every page spec made of comma-separated tokens that are each a  *)
(* non-negative integer or a range start-end, blanks allowed around a      *)
(* token, both copies of the parser succeed and return exactly the union   *)
(* of {n} for each single token and start..end for each range token; a     *)
(* range with start > end contributes nothing and is not an error.         *)
C1_ParseExpandsExactly ==
    (pout.done /\ WellFormedSpec(pin)) =>
        /\ pout.http.ok /\ pout.http.pages = ExpectedPages(pin)
        /\ pout.cli.ok /\ pout.cli.pages = ExpectedPages(pin)

(* "3-1,2" has been parsed: the reversed range gave nothing, the result is {2} *)
C1_Witness ==
    /\ pout.done
    /\ pin = <<"3", "-", "1", ",", "2">>
    /\ WellFormedSpec(pin) /\ HasReversedRange(pin)
    /\ pout.http.ok /\ pout.http.pages = {2}

---------------------------------------------------------------------------
(* What DeletePages and Merge are to produce, stated on positions          *)

(* doc holds exactly the pages of orig whose 1-based position is not in S, *)
(* in their original relative order.                                       *)
IsDeletionOf(doc, orig, S) ==
    LET T == Len(orig)
        K == {i \in 1..T : i \notin S}
    IN  /\ Len(doc) = T - Cardinality(S \cap (1..T))
        /\ \A i \in K : doc[Cardinality({k \in K : k <= i})] = orig[i]

(* doc is the inputs' page sequences one after the other in input order *)
IsConcatenationOf(doc, contents) ==
    LET all == UNION {{<<i, k>> : k \in 1..Len(contents[i].pages)} :
                         i \in 1..Len(contents)}
    IN  /\ Len(doc) = Cardinality(all)
        /\ \A pg \in all :
              /\ contents[pg[1]].pages[pg[2]] = Page(pg[1], pg[2])
              /\ \E j \in 1..Len(doc) : doc[j] = Page(pg[1], pg[2])
        /\ \A j1, j2 \in 1..Len(doc) :
              j1 < j2 =>
                 \/ doc[j1][1] < doc[j2][1]
                 \/ doc[j1][1] = doc[j2][1] /\ doc[j1][2] < doc[j2][2]

AllDecodable(files) == \A i \in 1..Len(files) : files[i].content.kind = "pdf"

---------------------------------------------------------------------------
---------------------------------------------------------------------------
(* C4: POST /merge with at least 2 files, one of whose filenames lacks a   *)
(* case-insensitive .pdf suffix, answers 400 with a detail that names that *)
(* file as not a PDF.                                                      *)
C4_MergeNonPdfNameIs400 ==
    (/\ op = "POST /merge"
     /\ Len(req.files) >= 2
     /\ \E i \in 1..Len(req.files) : ~is_pdf_name(req.files[i].filename))
    => /\ resp.status = 400
       /\ resp.json
       /\ resp.detail.text = "File {file.filename} is not a PDF"
       /\ \E i \in 1..Len(req.files) :
             /\ ~is_pdf_name(req.files[i].filename)
             /\ resp.detail.arg = req.files[i].filename

(* C5: merge with fewer than 2 inputs (exactly one upload on HTTP, zero or *)
(* one path for PDFTool.merge_pdfs) fails with 'At least 2 PDF files are   *)
(* required' (HTTP 400, ValueError on the CLI), whatever the single input  *)
(* is: missing, wrongly named or undecodable.                              *)
C5_MergeCountCheckedFirst ==
    /\ (op = "POST /merge" /\ Len(req.files) = 1)
       => /\ resp.status = 400 /\ resp.json /\ ~resp.hasDoc
          /\ resp.detail = M("At least 2 PDF files are required")
    /\ (op = "merge" /\ Len(req.files) < 2)
       => /\ call.kind = "raise" /\ call.exc = "ValueError" /\ ~call.written
          /\ call.msg = M("At least 2 PDF files are required for merging")

(* a single upload, wrongly named and undecodable, is answered by the count check *)
C5_Witness ==
    /\ op = "POST /merge"
    /\ Len(req.files) = 1
    /\ ~is_pdf_name(req.files[1].filename)
    /\ req.files[1].content.kind = "corrupt"
    /\ resp.status = 400
    /\ resp.detail = M("At least 2 PDF files are required")

(* C6: POST /delete-pages with a .pdf-named file and a `pages` field that  *)
(* is missing or empty answers 400 with detail 'Pages parameter is         *)
(* required'.                                                              *)
C6_MissingOrEmptyPagesIs400 ==
    (/\ op = "POST /delete-pages"
     /\ is_pdf_name(req.name)
     /\ (~req.hasPages \/ req.pages = <<>>))
    => /\ resp.status = 400
       /\ resp.json
       /\ resp.detail = M("Pages parameter is required")

(* C7: POST /delete-pages with a .pdf-named file and a non-empty `pages`   *)
(* string that fails to parse answers 400 with detail 'Invalid page range  *)
(* format' and returns no document.                                        *)
C7_UnparseablePagesIs400 ==
    (/\ op = "POST /delete-pages"
     /\ is_pdf_name(req.name)
     /\ req.hasPages /\ req.pages # <<>>
     /\ ~http_parse_pages(req.pages).ok)
    => /\ resp.status = 400
       /\ resp.json
       /\ resp.detail = M("Invalid page range format")
       /\ ~resp.hasDoc

(* "1-a", a range with a non-numeric half, sent with a decodable document *)
C7_Witness ==
    /\ op = "POST /delete-pages"
    /\ is_pdf_name(req.name)
    /\ req.pages = <<"1", "-", "a">>
    /\ req.content.kind = "pdf"
    /\ resp.status = 400
    /\ resp.detail = M("Invalid page range format")

(* The request reaches the decoding of a document that PyPDF2 rejects *)
DecodeFailure ==
    \/ /\ op = "POST /merge"
       /\ Len(req.files) >= 2
       /\ \E i \in 1..Len(req.files) :
             /\ req.files[i].content.kind = "corrupt"
             /\ \A j \in 1..i : is_pdf_name(req.files[j].filename)
             /\ \A j \in 1..(i - 1) : req.files[j].content.kind = "pdf"
    \/ /\ op = "POST /delete-pages"
       /\ is_pdf_name(req.name)
       /\ req.hasPages /\ req.pages # <<>>
       /\ http_parse_pages(req.pages).ok
       /\ req.content.kind = "corrupt"
    \/ /\ op = "GET /page-count"
       /\ endswith(req.name, DotPdf)
       /\ scratch[req.name].kind = "corrupt"

DecodeFailureMsg ==
    IF op = "POST /merge"
    THEN LET i == CHOOSE k \in 1..Len(req.files) :
                      /\ req.files[k].content.kind = "corrupt"
                      /\ \A j \in 1..(k - 1) : req.files[j].content.kind = "pdf"
         IN  req.files[i].content.msg
    ELSE IF op = "POST /delete-pages" THEN req.content.msg
    ELSE scratch[req.name].msg

(* C8: in every HTTP endpoint, a failure of the PDF library while decoding *)
(* a document, with message m, produces HTTP 500 with body {"detail": m},  *)
(* the raw message passed through verbatim.                                *)
C8_DecodeFailureIs500WithRawMessage ==
    DecodeFailure =>
        /\ resp.status = 500
        /\ resp.json
        /\ resp.detail = DecodeFailureMsg

(* The indices of the parsed spec that lie outside 1..T *)
OutOfRange(S, T) == {q \in S : ~(1 <= q /\ q <= T)}

CliDeleteReachesRangeCheck ==
    /\ op = "delete"
    /\ is_pdf_name(req.name)
    /\ req.content.kind = "pdf"
    /\ cli_parse_pages(req.pages).ok

C10_OutOfRangeRaisesValueError ==
    (/\ CliDeleteReachesRangeCheck
     /\ OutOfRange(cli_parse_pages(req.pages).pages, Len(req.content.pages)) # {})
    => /\ call.kind = "raise"
       /\ call.exc = "ValueError"
       /\ call.msg.prefix = <<>>
       /\ call.msg.text = "Invalid page numbers: {invalid_pages}. Pages must be between 1 and {total_pages}"

---------------------------------------------------------------------------
(* C11: POST /delete-pages with a .pdf-named, decodable document of T      *)
(* pages and a non-empty spec that parses always answers 200 with a        *)
(* document: indices outside 1..T are ignored and cause no error, and the  *)
(* answer is still 200 when every page is removed and the document         *)
(* returned has no pages.                                                  *)
C11_DeleteNeverRejectsParsedSpec ==
    (/\ op = "POST /delete-pages"
     /\ is_pdf_name(req.name)
     /\ req.hasPages /\ req.pages # <<>>
     /\ req.content.kind = "pdf"
     /\ http_parse_pages(req.pages).ok)
    => /\ resp.status = 200
       /\ resp.hasDoc
       /\ ~resp.json
       /\ resp.disposition = "attachment; filename=modified.pdf"
       /\ (1..Len(req.content.pages)) \subseteq http_parse_pages(req.pages).pages
             => resp.doc = <<>>

(* "0-2" on a 2-page upload: 0 is ignored, both pages go, the answer is 200 *)
C11_Witness ==
    /\ op = "POST /delete-pages"
    /\ req.pages = <<"0", "-", "2">>
    /\ Len(req.content.pages) = 2
    /\ http_parse_pages(req.pages).pages = {0, 1, 2}
    /\ resp.status = 200
    /\ resp.hasDoc
    /\ resp.doc = <<>>

---------------------------------------------------------------------------
(* The inputs of a subcommand make its operation fail: a missing file, a   *)
(* wrong suffix, fewer than 2 files, an unparseable spec, an index out of  *)
(* range, an undecodable file.                                             *)
CliInputsFail ==
    \/ /\ op = "merge"
       /\ \/ Len(req.files) < 2
          \/ \E i \in 1..Len(req.files) :
                \/ req.files[i].content.kind # "pdf"
                \/ ~is_pdf_name(req.files[i].path)
    \/ /\ op = "delete"
       /\ \/ req.content.kind # "pdf"
          \/ ~is_pdf_name(req.name)
          \/ ~cli_parse_pages(req.pages).ok
          \/ OutOfRange(cli_parse_pages(req.pages).pages, Len(req.content.pages)) # {}
    \/ /\ op = "info"
       /\ \/ req.content.kind # "pdf"
          \/ ~is_pdf_name(req.name)

ExitsOneWithErrorLine ==
    /\ proc.ran
    /\ proc.exit = 1
    /\ proc.error
    /\ proc.printed.prefix # <<>>
    /\ Head(proc.printed.prefix) = "Error: "

---------------------------------------------------------------------------
(* The index set S holds every page position of a document of T pages *)
CoversAllPages(S, T) == (1..T) \subseteq S

CannotDeleteAll == M("Cannot delete all pages. At least one page must remain.")

(* The session has counted T pages and has just been given a spec that     *)
(* parses to a set covering 1..T                                           *)
EnteredCoveringSpec(at, sn) ==
    /\ at \in {"refused_pages", "done"}
    /\ sn.page_count >= 0
    /\ sn.pages_input # <<>>
    /\ interactive_parse_pages(sn.pages_input).ok
    /\ CoversAllPages(interactive_parse_pages(sn.pages_input).pages, sn.page_count)

(* C14: interactive delete never goes on with a deletion that would remove *)
(* every page: for a document of T pages a spec whose index set covers     *)
(* 1..T is refused with 'Cannot delete all pages', delete_pages is not     *)
(* called and the pages prompt is shown again; and every output file that  *)
(* interactive delete writes has at least one page.                        *)
C14_InteractiveNeverDeletesAllPages ==
    [][op' = "interactive delete" =>
          /\ EnteredCoveringSpec(pc', session')
                => /\ pc' = "refused_pages"
                   /\ session'.printed = CannotDeleteAll
                   /\ call'.kind = "none"
          /\ (pc = "refused_pages" /\ EnteredCoveringSpec(pc, session))
                => /\ pc' = "ask_pages"
                   /\ session'.file = session.file
                   /\ session'.page_count = session.page_count
          /\ call'.written => Len(call'.doc) >= 1]_vars

(* "1-2" typed for a 2-page file: refused, nothing written *)
C14_Witness ==
    /\ op = "interactive delete"
    /\ pc = "refused_pages"
    /\ session.page_count = 2
    /\ session.pages_input = <<"1", "-", "2">>
    /\ session.printed = CannotDeleteAll
    /\ ~call.written

---------------------------------------------------------------------------
(* The inputs of an HTTP merge or delete make it fail in validation,       *)
(* parsing or decoding                                                     *)
HttpInputsFail ==
    \/ /\ op = "POST /merge"
       /\ \/ Len(req.files) < 2
          \/ \E i \in 1..Len(req.files) :
                \/ req.files[i].content.kind # "pdf"
                \/ ~is_pdf_name(req.files[i].filename)
    \/ /\ op = "POST /delete-pages"
       /\ \/ ~is_pdf_name(req.name)
          \/ ~req.hasPages
          \/ req.pages = <<>>
          \/ ~http_parse_pages(req.pages).ok
          \/ req.content.kind # "pdf"

(* The number of documents the operation is given *)
InputCount == IF op \in {"POST /merge", "merge"} THEN Len(req.files) ELSE 1

(* C15: no operation returns a partial result: when merge or delete, on    *)
(* either surface, fails in input validation, spec parsing, range checking *)
(* or the decoding of any input, the HTTP response carries no PDF body and *)
(* the CLI writes no output file; a body or an output file is produced     *)
(* only after every input has been decoded.                                *)
C15_NoPartialResult ==
    /\ op \in {"POST /merge", "POST /delete-pages"} =>
          /\ HttpInputsFail => ~resp.hasDoc /\ resp.doc = <<>> /\ resp.status # 200
          /\ resp.hasDoc => ~HttpInputsFail /\ decoded = InputCount
    /\ op \in {"merge", "delete"} =>
          /\ CliInputsFail => ~call.written /\ call.doc = <<>> /\ call.kind = "raise"
          /\ call.written => ~CliInputsFail /\ decoded = InputCount

(* merge of a decodable file and an undecodable one: the first was read,   *)
(* the second failed, no output file exists                                *)
C15_Witness ==
    /\ op = "merge"
    /\ Len(req.files) = 2
    /\ \A i \in 1..2 : is_pdf_name(req.files[i].path)
    /\ req.files[1].content.kind = "pdf" /\ Len(req.files[1].content.pages) = 2
    /\ req.files[2].content.kind = "corrupt"
    /\ call.kind = "raise"
    /\ decoded = 2
    /\ ~call.written

---------------------------------------------------------------------------
(* C16: on every successful CLI delete of a T-page document the reported   *)
(* count of deleted pages is the number of pages actually removed from the *)
(* document, and the reported counts satisfy deleted + kept = T.           *)
C16_ReportedCountsAddUp ==
    (/\ op \in {"delete", "interactive delete"}
     /\ call.kind = "return"
     /\ call.written)
    => /\ call.deleted = Len(req.content.pages) - Len(call.doc)
       /\ call.kept = Len(call.doc)
       /\ call.deleted + call.kept = Len(req.content.pages)

(* `delete a.pdf -p 1,1` on 3 pages: page 1 named twice, 1 deleted, 2 kept *)
C16_Witness ==
    /\ op = "delete"
    /\ req.pages = <<"1", ",", "1">>
    /\ Len(req.content.pages) = 3
    /\ call.kind = "return"
    /\ call.written
    /\ call.deleted = 1
    /\ call.kept = 2

---------------------------------------------------------------------------
HttpOps == {"POST /merge", "POST /delete-pages", "GET /page-count"}

(* What a server that has answered no request yet answers to the request *)
FreshResponse(o, r) ==
    IF o = "POST /merge" THEN post_merge(r.files)
    ELSE IF o = "POST /delete-pages"
    THEN post_delete_pages([filename |-> r.name, content |-> r.content],
                           r.hasPages, r.pages)
    ELSE respond(get_page_count(r.name, ScratchDir))

(* C17: HTTP requests are independent and stateless: whatever requests     *)
(* were answered before, successfully or not, answering a /merge,          *)
(* /delete-pages or /page-count request creates, changes or removes no     *)
(* file of the scratch directory, and the response is the one the request  *)
(* and the scratch directory contents determine, the same a server that    *)
(* has answered nothing yet would give.                                    *)
C17_HttpRequestsAreStateless ==
    [][op' \in HttpOps =>
          /\ scratch' = scratch
          /\ scratch' = ScratchDir
          /\ resp' = FreshResponse(op', req')]_vars

(* a 3-page upload named a.pdf has been answered; temp/a.pdf still is the  *)
(* 2-page file it was                                                      *)
C17_Witness ==
    /\ op = "POST /delete-pages"
    /\ req.name = <<"a", ".", "p", "d", "f">>
    /\ Len(req.content.pages) = 3
    /\ resp.status = 200
    /\ scratch[req.name] = PdfContent(1, 2)
    /\ scratch = ScratchDir

---------------------------------------------------------------------------
(* The positions of the merge inputs whose name fails the .pdf suffix check *)
Offenders ==
    {i \in 1..Len(req.files) :
        ~is_pdf_name(IF op = "POST /merge" THEN req.files[i].filename
                     ELSE req.files[i].path)}

FirstOffender == CHOOSE i \in Offenders : \A j \in Offenders : i <= j

MergeWithOffender ==
    /\ op \in {"POST /merge", "merge"}
    /\ Len(req.files) >= 2
    /\ Offenders # {}

(* The error the merge ended with names the first offender *)
ErrorNamesFirstOffender ==
    IF op = "POST /merge"
    THEN /\ resp.status # 200 /\ resp.json
         /\ resp.detail.arg = req.files[FirstOffender].filename
    ELSE /\ call.kind = "raise"
         /\ call.msg.arg = req.files[FirstOffender].path

(* No input at or after the first offender was passed to PdfReader; on the *)
(* CLI no file was opened at all                                           *)
NothingReadFromOffenderOn ==
    IF op = "POST /merge" THEN decoded < FirstOffender ELSE decoded = 0

InputsBeforeOffenderPass ==
    \A j \in 1..(FirstOffender - 1) :
        IF op = "POST /merge" THEN req.files[j].content.kind = "pdf"
        ELSE req.files[j].content.kind # "absent"

---------------------------------------------------------------------------
(* C19: POST /delete-pages, sent with a `pages` field, runs its checks in  *)
(* the order name suffix, non-empty spec, spec parsing, document decoding, *)
(* and the first check that fails alone decides the response: a name that  *)
(* is not .pdf gives 'File must be a PDF' whatever the spec is, an empty   *)
(* spec gives 'Pages parameter is required' before any parsing, and a spec *)
(* that does not parse gives 'Invalid page range format' even when the     *)
(* uploaded bytes cannot be decoded; the document is decoded only when the *)
(* three earlier checks have passed.                                       *)
C19_DeleteChecksInOrder ==
    (op = "POST /delete-pages" /\ req.hasPages) =>
        /\ ~is_pdf_name(req.name)
              => /\ resp.status = 400
                 /\ resp.detail = M("File must be a PDF")
        /\ (is_pdf_name(req.name) /\ req.pages = <<>>)
              => /\ resp.status = 400
                 /\ resp.detail = M("Pages parameter is required")
        /\ (is_pdf_name(req.name) /\ req.pages # <<>> /\ ~http_parse_pages(req.pages).ok)
              => /\ resp.status = 400
                 /\ resp.detail = M("Invalid page range format")
        /\ decoded = 1 <=> /\ is_pdf_name(req.name)
                           /\ req.pages # <<>>
                           /\ http_parse_pages(req.pages).ok
        /\ (decoded = 1 /\ req.content.kind = "corrupt") => resp.status # 200

(* "1-a" sent with bytes PdfReader rejects: the spec is refused, the bytes *)
(* were never decoded                                                      *)
C19_Witness ==
    /\ op = "POST /delete-pages"
    /\ is_pdf_name(req.name)
    /\ req.pages = <<"1", "-", "a">>
    /\ req.content.kind = "corrupt"
    /\ req.content.exc = "PdfReadError"
    /\ resp.status = 400
    /\ resp.detail = M("Invalid page range format")
    /\ decoded = 0

---------------------------------------------------------------------------
(* C20: the three copies of the page-spec parser (POST /delete-pages,      *)
(* PDFTool.delete_pages, interactive_delete) are equivalent: on every      *)
(* input string either all three fail to parse it or all three produce the *)
(* same index set.                                                         *)
C20_ParserCopiesAgree ==
    pout.done =>
        /\ pout.http.ok <=> pout.cli.ok
        /\ pout.cli.ok <=> pout.interactive.ok
        /\ pout.http.ok =>
              /\ pout.http.pages = pout.cli.pages
              /\ pout.cli.pages = pout.interactive.pages

(* " 2-3," is refused by all three, the empty last part failing int() *)
C20_WitnessRefused ==
    /\ pout.done
    /\ pin = <<" ", "2", "-", "3", ",">>
    /\ ~pout.http.ok /\ ~pout.cli.ok /\ ~pout.interactive.ok

(* "1-3,2" gives {1, 2, 3} in all three *)
C20_Witness ==
    /\ pout.done
    /\ pin = <<"1", "-", "3", ",", "2">>
    /\ pout.http.ok /\ pout.cli.ok /\ pout.interactive.ok
    /\ pout.http.pages = {1, 2, 3}
    /\ pout.cli.pages = {1, 2, 3}
    /\ pout.interactive.pages = {1, 2, 3}

---------------------------------------------------------------------------
(* C21: POST /delete-pages answers 400 'Invalid page range format' only    *)
(* when the page spec itself fails to parse: a failure raised while the    *)
(* uploaded document is decoded, whatever the class of the exception, is   *)
(* never reported as a page-range format error.                            *)
C21_FormatErrorOnlyForUnparseableSpec ==
    (/\ op = "POST /delete-pages"
     /\ resp.status = 400
     /\ resp.detail = M("Invalid page range format"))
    => /\ ~http_parse_pages(req.pages).ok
       /\ decoded = 0

(* C22: every .pdf-suffix gate of the program accepts the same names,      *)
(* those ending in '.pdf' compared without regard to case: a name that     *)
(* POST /merge, POST /delete-pages and the CLI operations accept, such as  *)
(* 'A.PDF', is accepted by GET /page-count too, and a name one of them     *)
(* rejects is rejected by all.                                             *)
C22_SuffixGatesAgree ==
    /\ op = "GET /page-count" =>
          ((resp.status = 400 /\ resp.detail = M("File is not a PDF"))
              <=> ~is_pdf_name(req.name))
    /\ (op = "POST /delete-pages" /\ req.hasPages) =>
          ((resp.status = 400 /\ resp.detail = M("File must be a PDF"))
              <=> ~is_pdf_name(req.name))
    /\ (op \in {"delete", "info"} /\ req.content.kind # "absent") =>
          ((call.kind = "raise" /\ call.msg.text = "File is not a PDF: {input_file}")
              \/ (call.kind = "raise" /\ call.msg.text = "File is not a PDF: {file_path}")
              <=> ~is_pdf_name(req.name))

(* C23: the refusal 'Cannot delete all pages' of interactive delete is     *)
(* issued only for specs that would remove every page: for a document of   *)
(* T >= 1 pages, a spec that parses to a set S not holding all of 1..T     *)
(* passes that check and delete_pages is called.                           *)
C23_RefusalOnlyWhenAllPagesGo ==
    (/\ op = "interactive delete"
     /\ pc \in {"refused_pages", "done"}
     /\ session.page_count >= 1
     /\ session.pages_input # <<>>
     /\ interactive_parse_pages(session.pages_input).ok
     /\ ~CoversAllPages(interactive_parse_pages(session.pages_input).pages,
                        session.page_count))
    => /\ pc = "done"
       /\ session.printed # CannotDeleteAll
       /\ call.kind # "none"

====
